---- MODULE Spec2Model ----
(***************************************************************************)
(* SmartLens (src/app.py): incremental indexing of an image folder into a  *)
(* persistent vector collection, and top-3 similarity search over it.      *)
(*                                                                         *)
(* Every browser session runs main() top to bottom on each interaction; a  *)
(* session is a process here, and two sessions share the folder and the    *)
(* collection.  Strings (file names, query text) are sequences of          *)
(* character codes, so that lower(), endswith(), strip() and the lexical   *)
(* order are computed rather than assumed.                                 *)
(***************************************************************************)
EXTENDS Integers, Sequences, FiniteSets, Bags

VARIABLES
    files,        \* the image folder: file name -> content
    edits,        \* number of changes made to the folder so far
    store,        \* the collection: a bag of entries
    pc,           \* per session: position in main()
    call,         \* per session: which index_images call is running
    image_files,  \* per session: local of index_images
    existing_ids, \* per session: local of index_images
    new_images,   \* per session: local of index_images
    new_ids,      \* per session: local of index_images
    printed,      \* per session: names reported by print("Error loading ...")
    embeddings,   \* per session: local of index_images
    outcome,      \* per session: how the current index_images call ended
    pre,          \* history: the collection when the call read it
    expected,     \* history: readable unindexed image files when loaded
    unreadable,   \* history: unreadable unindexed image files when loaded
    changed,      \* history: folder changed (or call failed) since last load
    repeat,       \* history: this call follows a completed call, no change
    query,        \* per session: local of main
    results,      \* per session: local of main
    searched      \* per session: what the search block of main did

vars == <<files, edits, store, pc, call, image_files, existing_ids, new_images,
          new_ids, printed, embeddings, outcome, pre, expected, unreadable,
          changed, repeat, query, results, searched>>

-----------------------------------------------------------------------------
(* Bounds and the small universe of inputs *)

MaxEdits == 2

Sessions == {1, 2}

a_jpg  == <<97, 46, 106, 112, 103>>
B_PNG  == <<66, 46, 80, 78, 71>>
c_jpeg == <<99, 46, 106, 112, 101, 103>>
d_png  == <<100, 46, 112, 110, 103>>
e_txt  == <<101, 46, 116, 120, 116>>

Names == {a_jpg, B_PNG, c_jpeg, d_png, e_txt}

\* Pixel data of a decodable image: a dark picture, a bright picture.
Pixels == {"dark", "bright"}

\* What a directory entry can hold: nothing, bytes PIL cannot decode, an image.
Contents == {"absent", "corrupt"} \cup Pixels

EmptyFolder == [f \in Names |-> "absent"]

SampleFolder ==
    [f \in Names |->
        IF f = a_jpg THEN "dark"
        ELSE IF f = B_PNG THEN "dark"
        ELSE IF f = c_jpeg THEN "bright"
        ELSE "corrupt"]

QEmpty  == <<>>
QBlank  == <<32, 32, 32>>
QCat    == <<99, 97, 116>>
QDog    == <<100, 111, 103>>

Queries == {QEmpty, QBlank, QCat, QDog}

NoQuery == <<0>>

-----------------------------------------------------------------------------
(* Strings *)

Range(sq) == {sq[i] : i \in DOMAIN sq}

Min(a, b) == IF a <= b THEN a ELSE b

Lower(s) == [i \in DOMAIN s |-> IF s[i] \in 65..90 THEN s[i] + 32 ELSE s[i]]

EndsWith(s, suffix) ==
    /\ Len(s) >= Len(suffix)
    /\ SubSeq(s, Len(s) - Len(suffix) + 1, Len(s)) = suffix

ImageSuffixes == {<<46, 112, 110, 103>>, <<46, 106, 112, 103>>,
                  <<46, 106, 112, 101, 103>>}

IsImageFile(f) == \E suffix \in ImageSuffixes : EndsWith(Lower(f), suffix)

RECURSIVE LexLess(_, _)
LexLess(s, t) ==
    IF s = <<>> THEN t # <<>>
    ELSE IF t = <<>> THEN FALSE
    ELSE IF Head(s) # Head(t) THEN Head(s) < Head(t)
    ELSE LexLess(Tail(s), Tail(t))

IsSpace(c) == c \in {32, 9, 10, 13}

RECURSIVE LStrip(_)
LStrip(s) == IF s # <<>> /\ IsSpace(Head(s)) THEN LStrip(Tail(s)) ELSE s

RECURSIVE RStrip(_)
RStrip(s) ==
    IF s # <<>> /\ IsSpace(s[Len(s)]) THEN RStrip(SubSeq(s, 1, Len(s) - 1))
    ELSE s

Strip(s) == RStrip(LStrip(s))

RECURSIVE SumCodes(_)
SumCodes(s) == IF s = <<>> THEN 0 ELSE Head(s) + SumCodes(Tail(s))

-----------------------------------------------------------------------------
(* The embedding provider: SentenceTransformer.encode, as a deterministic  *)
(* stub.  Image and text vectors live in one space with positive           *)
(* coordinates.  The field "of" is a history field: the file the embedded  *)
(* image was opened from.  No operation reads it.                          *)

ImageVector(image) == <<IF image.pix = "dark" THEN 1 ELSE 2, 1>>

TextVector(text) == <<1 + (SumCodes(text) % 3), 1 + (Len(text) % 2)>>

ModelEncodeImages(images) ==
    [i \in DOMAIN images |->
        [vec |-> ImageVector(images[i]), of |-> images[i].src]]

ModelEncodeText(texts) == [i \in DOMAIN texts |-> TextVector(texts[i])]

Dot(u, v) == u[1] * v[1] + u[2] * v[2]

\* Cosine distance 1 - cos(u, v), kept exactly as the fraction cos^2 =
\* num / den (all coordinates are positive, so cos > 0).
CosineDistance(u, v) ==
    [num |-> Dot(u, v) * Dot(u, v), den |-> Dot(u, u) * Dot(v, v)]

\* d1 <= d2: the larger cosine is the smaller distance.
DistLeq(d1, d2) == d2.num * d1.den <= d1.num * d2.den

DistEq(d1, d2) == d1.num * d2.den = d2.num * d1.den

-----------------------------------------------------------------------------
(* The collection (chromadb.PersistentClient, cosine space) as the code    *)
(* uses it: get(), add(), query().                                         *)

IDsOf(st) == {e.id : e \in BagToSet(st)}

CopiesOfID(st, id) ==
    LET same == {e \in BagToSet(st) : e.id = id}
        RECURSIVE Total(_)
        Total(S) == IF S = {} THEN 0
                    ELSE LET e == CHOOSE x \in S : TRUE
                         IN CopiesIn(e, st) + Total(S \ {e})
    IN Total(same)

\* A get() that returns only a first page of the collection.
CollectionGetIdsPeek(st) ==
    IF IDsOf(st) = {} THEN {}
    ELSE {CHOOSE id \in IDsOf(st) : \A other \in IDsOf(st) :
              other = id \/ LexLess(id, other)}

\* collection.get()['ids']
CollectionGetIds(st) == IDsOf(st)

Entry(id, embedding, metadata) ==
    [id |-> id, embedding |-> embedding, metadata |-> metadata]

\* add() validates its arguments before writing anything.
AddRaises(embs, ids, metadatas) ==
    \/ Len(embs) # Len(ids)
    \/ Len(metadatas) # Len(ids)
    \/ Cardinality(Range(ids)) # Len(ids)

RECURSIVE AddRecords(_, _, _, _, _)
AddRecords(st, embs, ids, metadatas, i) ==
    IF i > Len(ids) THEN st
    ELSE IF ids[i] \in IDsOf(st)
         THEN AddRecords(st, embs, ids, metadatas, i + 1)
         ELSE AddRecords(st (+) SetToBag({Entry(ids[i], embs[i], metadatas[i])}),
                         embs, ids, metadatas, i + 1)

\* An add() that appends every record, present or not.
RECURSIVE AppendRecords(_, _, _, _, _)
AppendRecords(st, embs, ids, metadatas, i) ==
    IF i > Len(ids) THEN st
    ELSE AppendRecords(st (+) SetToBag({Entry(ids[i], embs[i], metadatas[i])}),
                       embs, ids, metadatas, i + 1)

CollectionAddNoDedup(st, embs, ids, metadatas) ==
    AppendRecords(st, embs, ids, metadatas, 1)

\* An add() that rebuilds the collection from the batch.
CollectionAddReplace(st, embs, ids, metadatas) ==
    AddRecords(EmptyBag, embs, ids, metadatas, 1)

\* collection.add(embeddings, ids, metadatas): a record whose id is already
\* in the collection is logged and left out; the rest are written.
CollectionAdd(st, embs, ids, metadatas) ==
    AddRecords(st, embs, ids, metadatas, 1)

Hit(e, qv) == [id |-> e.id, distance |-> CosineDistance(e.embedding.vec, qv)]

\* The possible answers of a nearest-neighbour query for m results: the m
\* nearest entries in ascending distance; the order among entries at the
\* same distance is the index's, and is not fixed by the caller.
TopM(st, qv, m) ==
    LET E == BagToSet(st)
        D(e) == CosineDistance(e.embedding.vec, qv)
    IN {[i \in 1..m |-> Hit(r[i], qv)] :
          r \in {r \in [1..m -> E] :
                   /\ \A i, j \in 1..m : i < j =>
                          /\ r[i] # r[j]
                          /\ DistLeq(D(r[i]), D(r[j]))
                   /\ \A e \in E \ {r[i] : i \in 1..m} :
                          \A i \in 1..m : DistLeq(D(r[i]), D(e))}}

\* A query that returns one result more than asked for.
CollectionQueryOneMore(st, qv, n) ==
    TopM(st, qv, Min(n + 1, Cardinality(BagToSet(st))))

\* collection.query(query_embeddings, n_results): n_results is lowered to
\* the number of entries when the collection holds fewer.
CollectionQuery(st, qv, n) ==
    TopM(st, qv, Min(n, Cardinality(BagToSet(st))))

NResults == 3

-----------------------------------------------------------------------------
(* index_images: the loop over image_files *)

CanOpen(fs, f) == fs[f] \in Pixels

\* Image.open(path).convert("RGB"); "src" is a history field naming the file.
OpenRGB(fs, f) == [pix |-> fs[f], src |-> f]

NoneLoaded == [new_images |-> <<>>, new_ids |-> <<>>, printed |-> <<>>]

\* The loop without the "not in existing_ids" test.
RECURSIVE LoadLoopNoFilter(_, _, _, _)
LoadLoopNoFilter(fs, listing, existing, acc) ==
    IF listing = <<>> THEN acc
    ELSE LET img_file == Head(listing)
         IN IF CanOpen(fs, img_file)
            THEN LoadLoopNoFilter(fs, Tail(listing), existing,
                     [acc EXCEPT
                        !.new_images = Append(@, OpenRGB(fs, img_file)),
                        !.new_ids = Append(@, img_file)])
            ELSE LoadLoopNoFilter(fs, Tail(listing), existing,
                     [acc EXCEPT !.printed = Append(@, img_file)])

\* The loop leaving at the first file that cannot be loaded.
RECURSIVE LoadLoopStop(_, _, _, _)
LoadLoopStop(fs, listing, existing, acc) ==
    IF listing = <<>> THEN acc
    ELSE LET img_file == Head(listing)
         IN IF img_file \notin existing
            THEN IF CanOpen(fs, img_file)
                 THEN LoadLoopStop(fs, Tail(listing), existing,
                          [acc EXCEPT
                             !.new_images = Append(@, OpenRGB(fs, img_file)),
                             !.new_ids = Append(@, img_file)])
                 ELSE [acc EXCEPT !.printed = Append(@, img_file)]
            ELSE LoadLoopStop(fs, Tail(listing), existing, acc)

\* The loop recording the id before the image is opened.
RECURSIVE LoadLoopIdFirst(_, _, _, _)
LoadLoopIdFirst(fs, listing, existing, acc) ==
    IF listing = <<>> THEN acc
    ELSE LET img_file == Head(listing)
         IN IF img_file \notin existing
            THEN IF CanOpen(fs, img_file)
                 THEN LoadLoopIdFirst(fs, Tail(listing), existing,
                          [acc EXCEPT
                             !.new_images = Append(@, OpenRGB(fs, img_file)),
                             !.new_ids = Append(@, img_file)])
                 ELSE LoadLoopIdFirst(fs, Tail(listing), existing,
                          [acc EXCEPT
                             !.new_ids = Append(@, img_file),
                             !.printed = Append(@, img_file)])
            ELSE LoadLoopIdFirst(fs, Tail(listing), existing, acc)

\* for img_file in image_files: if not indexed, try to open it; on success
\* append the image and the id together, on any exception print and go on.
RECURSIVE LoadLoop(_, _, _, _)
LoadLoop(fs, listing, existing, acc) ==
    IF listing = <<>> THEN acc
    ELSE LET img_file == Head(listing)
         IN IF img_file \notin existing
            THEN IF CanOpen(fs, img_file)
                 THEN LoadLoop(fs, Tail(listing), existing,
                          [acc EXCEPT
                             !.new_images = Append(@, OpenRGB(fs, img_file)),
                             !.new_ids = Append(@, img_file)])
                 ELSE LoadLoop(fs, Tail(listing), existing,
                          [acc EXCEPT !.printed = Append(@, img_file)])
            ELSE LoadLoop(fs, Tail(listing), existing, acc)

RECURSIVE SortedNames(_)
SortedNames(S) ==
    IF S = {} THEN <<>>
    ELSE LET least == CHOOSE f \in S : \A g \in S : g = f \/ LexLess(f, g)
         IN <<least>> \o SortedNames(S \ {least})

Reverse(sq) == [i \in DOMAIN sq |-> sq[Len(sq) + 1 - i]]

\* [f for f in os.listdir(IMAGE_FOLDER) if f.lower().endswith(...)]: the
\* entries of the folder with an image extension, compared case-insensitively.
\* os.listdir fixes no order; the two extreme orders are tried.
Listings(fs) ==
    LET S == {f \in Names : fs[f] # "absent" /\ IsImageFile(f)}
    IN {SortedNames(S), Reverse(SortedNames(S))}

Metadatas(ids) == [i \in DOMAIN ids |-> [filename |-> ids[i]]]

-----------------------------------------------------------------------------
(* State after start-up: the folder exists (it was created empty, or it    *)
(* already held files), the collection was just created or was left on     *)
(* disk by an earlier process, no session is running the script.           *)

None == "none"

\* The folder an earlier process indexed, and the collection it left on disk.
EarlierFolder == [EmptyFolder EXCEPT ![a_jpg] = "bright"]

PersistedStore ==
    CollectionAdd(EmptyBag,
                  ModelEncodeImages(<<OpenRGB(EarlierFolder, a_jpg)>>),
                  <<a_jpg>>, Metadatas(<<a_jpg>>))

Init ==
    /\ files \in {EmptyFolder, SampleFolder}
    /\ edits = 0
    /\ store \in {EmptyBag, PersistedStore}
    /\ pc = [s \in Sessions |-> "idle"]
    /\ call = [s \in Sessions |-> None]
    /\ image_files = [s \in Sessions |-> <<>>]
    /\ existing_ids = [s \in Sessions |-> {}]
    /\ new_images = [s \in Sessions |-> <<>>]
    /\ new_ids = [s \in Sessions |-> <<>>]
    /\ printed = [s \in Sessions |-> <<>>]
    /\ embeddings = [s \in Sessions |-> <<>>]
    /\ outcome = [s \in Sessions |-> None]
    /\ pre = [s \in Sessions |-> EmptyBag]
    /\ expected = [s \in Sessions |-> {}]
    /\ unreadable = [s \in Sessions |-> {}]
    /\ changed = [s \in Sessions |-> TRUE]
    /\ repeat = [s \in Sessions |-> FALSE]
    /\ query = [s \in Sessions |-> NoQuery]
    /\ results = [s \in Sessions |-> <<>>]
    /\ searched = [s \in Sessions |-> None]

indexLocals == <<image_files, existing_ids, new_images, new_ids, printed,
                 embeddings, outcome, pre, expected, unreadable, repeat>>

searchLocals == <<query, results, searched>>

-----------------------------------------------------------------------------
(* The folder changes under the program: a file is written or removed.     *)

WriteFile(f, c) ==
    /\ edits < MaxEdits
    /\ c # "absent"
    /\ files[f] # c
    /\ files' = [files EXCEPT ![f] = c]
    /\ edits' = edits + 1
    /\ changed' = [s \in Sessions |-> TRUE]
    /\ UNCHANGED <<store, pc, call, indexLocals, searchLocals>>

DeleteFile(f) ==
    /\ edits < MaxEdits
    /\ files[f] # "absent"
    /\ files' = [files EXCEPT ![f] = "absent"]
    /\ edits' = edits + 1
    /\ changed' = [s \in Sessions |-> TRUE]
    /\ UNCHANGED <<store, pc, call, indexLocals, searchLocals>>

-----------------------------------------------------------------------------
(* main *)

\* A script run starts; st.button is TRUE when the run was caused by a
\* click on "Re-Index Image Folder".
Rerun(s) ==
    /\ pc[s] = "idle"
    /\ \E button \in BOOLEAN :
          call' = [call EXCEPT ![s] = IF button THEN "button" ELSE "startup"]
    /\ pc' = [pc EXCEPT ![s] = "index"]
    /\ UNCHANGED <<files, edits, store, changed, indexLocals, searchLocals>>

\* index_images up to the end of the loading loop.
ScanAndLoad(s) ==
    /\ pc[s] = "index"
    /\ \E listing \in Listings(files) :
          LET ids == CollectionGetIds(store)
              loaded == LoadLoop(files, listing, ids, NoneLoaded)
              imageNames == {f \in Names : IsImageFile(f)}
          IN /\ image_files' = [image_files EXCEPT ![s] = listing]
             /\ IF listing = <<>>
                THEN /\ outcome' = [outcome EXCEPT ![s] = "noimages"]
                     /\ pc' = [pc EXCEPT ![s] = "returned"]
                     /\ existing_ids' = [existing_ids EXCEPT ![s] = {}]
                     /\ new_images' = [new_images EXCEPT ![s] = <<>>]
                     /\ new_ids' = [new_ids EXCEPT ![s] = <<>>]
                     /\ printed' = [printed EXCEPT ![s] = <<>>]
                ELSE /\ outcome' = [outcome EXCEPT ![s] = "running"]
                     /\ pc' = [pc EXCEPT ![s] = "encode"]
                     /\ existing_ids' = [existing_ids EXCEPT ![s] = ids]
                     /\ new_images' = [new_images EXCEPT ![s] = loaded.new_images]
                     /\ new_ids' = [new_ids EXCEPT ![s] = loaded.new_ids]
                     /\ printed' = [printed EXCEPT ![s] = loaded.printed]
             /\ expected' = [expected EXCEPT ![s] =
                    {f \in imageNames : files[f] \in Pixels /\ f \notin IDsOf(store)}]
             /\ unreadable' = [unreadable EXCEPT ![s] =
                    {f \in imageNames : files[f] = "corrupt" /\ f \notin IDsOf(store)}]
    /\ embeddings' = [embeddings EXCEPT ![s] = <<>>]
    /\ pre' = [pre EXCEPT ![s] = store]
    /\ repeat' = [repeat EXCEPT ![s] = ~changed[s]]
    /\ changed' = [changed EXCEPT ![s] = FALSE]
    /\ UNCHANGED <<files, edits, store, call, searchLocals>>

\* if new_images: embeddings = model.encode(new_images); else: pass
Encode(s) ==
    /\ pc[s] = "encode"
    /\ IF new_images[s] = <<>>
       THEN /\ outcome' = [outcome EXCEPT ![s] = "noop"]
            /\ pc' = [pc EXCEPT ![s] = "returned"]
            /\ UNCHANGED embeddings
       ELSE /\ embeddings' = [embeddings EXCEPT ![s] =
                                 ModelEncodeImages(new_images[s])]
            /\ pc' = [pc EXCEPT ![s] = "add"]
            /\ UNCHANGED outcome
    /\ UNCHANGED <<files, edits, store, call, changed, image_files, existing_ids,
                   new_images, new_ids, printed, pre, expected, unreadable,
                   repeat, searchLocals>>

\* A handler that embeds and writes the images one by one, and has written
\* the first when the provider fails.
OnEncodeErrorPartial(s) ==
    /\ store' = CollectionAdd(store,
                    ModelEncodeImages(SubSeq(new_images[s], 1, 1)),
                    SubSeq(new_ids[s], 1, 1),
                    Metadatas(SubSeq(new_ids[s], 1, 1)))
    /\ outcome' = [outcome EXCEPT ![s] = "embed_error"]
    /\ pc' = [pc EXCEPT ![s] = "returned"]

\* model.encode raises: nothing in index_images or main catches it, so the
\* call ends there with the exception, before collection.add.
OnEncodeError(s) ==
    /\ store' = store
    /\ outcome' = [outcome EXCEPT ![s] = "embed_error"]
    /\ pc' = [pc EXCEPT ![s] = "returned"]

EncodeFails(s) ==
    /\ pc[s] = "encode"
    /\ new_images[s] # <<>>
    /\ OnEncodeError(s)
    /\ changed' = [changed EXCEPT ![s] = TRUE]
    /\ UNCHANGED <<files, edits, call, image_files, existing_ids, new_images,
                   new_ids, printed, embeddings, pre, expected, unreadable,
                   repeat, searchLocals>>

\* collection.add(embeddings=..., ids=new_ids, metadatas=[{"filename": f} ...])
Add(s) ==
    /\ pc[s] = "add"
    /\ IF AddRaises(embeddings[s], new_ids[s], Metadatas(new_ids[s]))
       THEN /\ store' = store
            /\ outcome' = [outcome EXCEPT ![s] = "add_error"]
            /\ changed' = [changed EXCEPT ![s] = TRUE]
       ELSE /\ store' = CollectionAdd(store, embeddings[s], new_ids[s],
                                      Metadatas(new_ids[s]))
            /\ outcome' = [outcome EXCEPT ![s] = "ok"]
            /\ UNCHANGED changed
    /\ pc' = [pc EXCEPT ![s] = "returned"]
    /\ UNCHANGED <<files, edits, call, image_files, existing_ids, new_images,
                   new_ids, printed, embeddings, pre, expected, unreadable,
                   repeat, searchLocals>>

Completed == {"noimages", "noop", "ok"}

\* index_images is over: after the button's call comes the start-up call,
\* after the start-up call the search block; an exception ends the script run.
Return(s) ==
    /\ pc[s] = "returned"
    /\ IF outcome[s] \notin Completed
       THEN /\ pc' = [pc EXCEPT ![s] = "idle"]
            /\ call' = [call EXCEPT ![s] = None]
       ELSE IF call[s] = "button"
       THEN /\ pc' = [pc EXCEPT ![s] = "index"]
            /\ call' = [call EXCEPT ![s] = "startup_after_button"]
       ELSE /\ pc' = [pc EXCEPT ![s] = "search"]
            /\ call' = [call EXCEPT ![s] = None]
    /\ image_files' = [image_files EXCEPT ![s] = <<>>]
    /\ existing_ids' = [existing_ids EXCEPT ![s] = {}]
    /\ new_images' = [new_images EXCEPT ![s] = <<>>]
    /\ new_ids' = [new_ids EXCEPT ![s] = <<>>]
    /\ printed' = [printed EXCEPT ![s] = <<>>]
    /\ embeddings' = [embeddings EXCEPT ![s] = <<>>]
    /\ outcome' = [outcome EXCEPT ![s] = None]
    /\ pre' = [pre EXCEPT ![s] = EmptyBag]
    /\ expected' = [expected EXCEPT ![s] = {}]
    /\ unreadable' = [unreadable EXCEPT ![s] = {}]
    /\ repeat' = [repeat EXCEPT ![s] = FALSE]
    /\ UNCHANGED <<files, edits, store, changed, searchLocals>>

\* query = st.text_input(...); if query: encode it, query the collection.
Search(s) ==
    /\ pc[s] = "search"
    /\ \E q \in Queries :
          /\ query' = [query EXCEPT ![s] = q]
          /\ IF q # <<>>
             THEN \E r \in CollectionQuery(store, ModelEncodeText(<<q>>)[1],
                                           NResults) :
                     /\ results' = [results EXCEPT ![s] = r]
                     /\ searched' = [searched EXCEPT ![s] = "queried"]
             ELSE /\ results' = [results EXCEPT ![s] = <<>>]
                  /\ searched' = [searched EXCEPT ![s] = "skipped"]
    /\ pc' = [pc EXCEPT ![s] = "shown"]
    /\ UNCHANGED <<files, edits, store, call, changed, indexLocals>>

\* The script run ends; its locals are gone.
Finish(s) ==
    /\ pc[s] = "shown"
    /\ pc' = [pc EXCEPT ![s] = "idle"]
    /\ query' = [query EXCEPT ![s] = NoQuery]
    /\ results' = [results EXCEPT ![s] = <<>>]
    /\ searched' = [searched EXCEPT ![s] = None]
    /\ UNCHANGED <<files, edits, store, call, changed, indexLocals>>

Step(s) ==
    \/ Rerun(s)
    \/ ScanAndLoad(s)
    \/ Encode(s)
    \/ EncodeFails(s)
    \/ Add(s)
    \/ Return(s)
    \/ Search(s)
    \/ Finish(s)

Environment ==
    \/ \E f \in Names, c \in Contents : WriteFile(f, c)
    \/ \E f \in Names : DeleteFile(f)

\* The sessions interleaved with one another and with changes of the folder.
Next ==
    \/ Environment
    \/ \E s \in Sessions : Step(s)

Spec == Init /\ [][Next]_vars

\* One session: index_images calls follow one another.
NextSeq ==
    \/ Environment
    \/ Step(1)

SpecSeq == Init /\ [][NextSeq]_vars

\* Two sessions whose index_images calls interleave over one unchanging
\* folder.
NextRace == \E s \in Sessions : Step(s)

SpecRace == Init /\ [][NextRace]_vars

-----------------------------------------------------------------------------
(* Properties *)

InCall(s) == pc[s] \in {"encode", "add", "returned"}

Ended(s) == pc[s] = "returned"

Sources(images) == {images[i].src : i \in DOMAIN images}

Added(s) == {e \in BagToSet(store) : CopiesIn(e, store) > CopiesIn(e, pre[s])}

Precedes(listing, S, T) ==
    \E i, j \in DOMAIN listing : i < j /\ listing[i] \in S /\ listing[j] \in T

\* C1: one index_images call embeds and inserts exactly the readable image
\* files whose id is not in the collection when the call starts: the ids and
\* images it builds, the images it encodes and the entries it adds are
\* those files and no other, an id already present is in none of them, and
\* after a completed call the ids of the collection are the prior ids
\* united with the ids of the readable files.
C1_OnlyNewReadableItems ==
    \A s \in Sessions :
        InCall(s) =>
            /\ Range(new_ids[s]) = expected[s]
            /\ Sources(new_images[s]) = expected[s]
            /\ Range(new_ids[s]) \cap IDsOf(pre[s]) = {}
            /\ pc[s] = "add" =>
                   {embeddings[s][i].of : i \in DOMAIN embeddings[s]} = expected[s]
            /\ (Ended(s) /\ outcome[s] \in Completed) =>
                   /\ IDsOf(store) = IDsOf(pre[s]) \cup expected[s]
                   /\ {e.id : e \in Added(s)} = expected[s]

\* A call has ended that skipped a readable file already indexed and
\* inserted another one.
C1_Witness ==
    \E s \in Sessions :
        /\ Ended(s) /\ outcome[s] = "ok"
        /\ \E f \in Range(image_files[s]) :
              f \in IDsOf(pre[s]) /\ f \notin Range(new_ids[s])
        /\ expected[s] # {}
        /\ IDsOf(store) = IDsOf(pre[s]) \cup expected[s]

\* C2: a call that follows a completed call with no change to the folder in
\* between (the start-up call after the button's call included) finds no new
\* item: it encodes nothing, adds nothing, and leaves the collection as the
\* first call left it.
C2_SecondRunIsNoOp ==
    \A s \in Sessions :
        (InCall(s) /\ repeat[s]) =>
            /\ new_images[s] = <<>>
            /\ new_ids[s] = <<>>
            /\ pc[s] # "add"
            /\ embeddings[s] = <<>>
            /\ store = pre[s]
            /\ Ended(s) => outcome[s] \in {"noop", "noimages"}

\* The start-up call of a script run whose button call had just indexed the
\* folder has ended, over a collection of several entries.
C2_Witness ==
    \E s \in Sessions :
        /\ Ended(s) /\ repeat[s]
        /\ call[s] = "startup_after_button"
        /\ outcome[s] = "noop"
        /\ BagCardinality(store) >= 2
        /\ \E f \in Range(image_files[s]) : files[f] \in Pixels

\* C3: a call keeps every entry the collection held before it, unchanged,
\* and removes none, whatever the folder holds now; a completed call adds one
\* entry per new readable file and nothing else (one new file, one entry).
C3_EntriesKept ==
    \A s \in Sessions :
        InCall(s) =>
            /\ pre[s] \sqsubseteq store
            /\ (Ended(s) /\ outcome[s] \in Completed) =>
                   BagCardinality(store) =
                       BagCardinality(pre[s]) + Cardinality(expected[s])

\* A call has ended over a collection holding an entry whose file is gone,
\* with exactly one new file in the folder.
C3_Witness ==
    \E s \in Sessions :
        /\ Ended(s) /\ outcome[s] = "ok"
        /\ \E e \in BagToSet(pre[s]) : files[e.id] = "absent"
        /\ Cardinality(expected[s]) = 1
        /\ BagCardinality(store) = BagCardinality(pre[s]) + 1

C5_UnreadableSkipped ==
    \A s \in Sessions :
        InCall(s) =>
            /\ Range(printed[s]) = unreadable[s]
            /\ Range(new_ids[s]) \cap unreadable[s] = {}
            /\ expected[s] \subseteq Range(new_ids[s])
            /\ (Ended(s) /\ outcome[s] = "ok") =>
                   /\ expected[s] \subseteq IDsOf(store)
                   /\ {e.id : e \in Added(s)} \cap unreadable[s] = {}

\* A call has ended normally in which an unreadable file came before a new
\* readable one in the listing.
C5_Witness ==
    \E s \in Sessions :
        /\ Ended(s) /\ outcome[s] = "ok"
        /\ printed[s] # <<>>
        /\ Precedes(image_files[s], unreadable[s], expected[s])
        /\ expected[s] \subseteq IDsOf(store)

\* C6: when the encoding of the batch fails, the call ends there with the
\* error and the collection is as it was before the call.
C6_EncodeFailureLeavesStore ==
    \A s \in Sessions :
        (Ended(s) /\ outcome[s] = "embed_error") =>
            /\ store = pre[s]
            /\ embeddings[s] = <<>>
            /\ Added(s) = {}

\* A call with a batch of several new images has ended with the error, over
\* a collection that is not empty.
C6_Witness ==
    \E s \in Sessions :
        /\ Ended(s) /\ outcome[s] = "embed_error"
        /\ Len(new_ids[s]) >= 2
        /\ store # EmptyBag

\* C7: a query that is run returns min(3, number of entries) results, never
\* more than 3, and none (without error) over an empty collection.
C7_KBounded ==
    \A s \in Sessions :
        (pc[s] = "shown" /\ searched[s] = "queried") =>
            /\ Len(results[s]) = Min(NResults, BagCardinality(store))
            /\ Len(results[s]) <= NResults
            /\ store = EmptyBag => results[s] = <<>>

\* A query was run over a collection of more than 3 entries.
C7_Witness ==
    \E s \in Sessions :
        /\ pc[s] = "shown" /\ searched[s] = "queried"
        /\ BagCardinality(store) > NResults
        /\ Len(results[s]) = NResults

\* C7, the other cases: a query over an empty collection, and over fewer
\* than 3 entries.
C7_WitnessEmpty ==
    \E s \in Sessions :
        pc[s] = "shown" /\ searched[s] = "queried" /\ store = EmptyBag

C7_WitnessFew ==
    \E s \in Sessions :
        /\ pc[s] = "shown" /\ searched[s] = "queried"
        /\ BagCardinality(store) \in 1..(NResults - 1)

\* C8: the results come in ascending distance, and results at the same
\* distance in ascending order of id.
C8_TiesByItemID ==
    \A s \in Sessions :
        (pc[s] = "shown" /\ searched[s] = "queried") =>
            \A i, j \in DOMAIN results[s] :
                i < j =>
                    /\ DistLeq(results[s][i].distance, results[s][j].distance)
                    /\ DistEq(results[s][i].distance, results[s][j].distance)
                           => LexLess(results[s][i].id, results[s][j].id)

\* C8, the part that holds: ascending distance, and no entry left out is
\* nearer than one returned.
C8_AscendingDistance ==
    \A s \in Sessions :
        (pc[s] = "shown" /\ searched[s] = "queried") =>
            /\ \A i, j \in DOMAIN results[s] :
                   i < j =>
                       DistLeq(results[s][i].distance, results[s][j].distance)
            /\ \A e \in BagToSet(store) :
                   e.id \notin {results[s][i].id : i \in DOMAIN results[s]} =>
                       \A i \in DOMAIN results[s] :
                           DistLeq(results[s][i].distance,
                                   Hit(e, TextVector(query[s])).distance)

\* C9: a query text that is empty or only whitespace is not encoded and
\* does not reach the collection.
C9_BlankQueryRejected ==
    \A s \in Sessions :
        (pc[s] = "shown" /\ Strip(query[s]) = <<>>) => searched[s] # "queried"

\* C10: every entry holds the embedding of the image opened from the file
\* its id names, and the metadata filename is that id; the images and the
\* ids a call builds have the same length and the same order, also when
\* files failed to load.
C10_EntriesAligned ==
    /\ \A e \in BagToSet(store) :
          /\ e.embedding.of = e.id
          /\ e.metadata = [filename |-> e.id]
          /\ \E p \in Pixels :
                e.embedding.vec = ImageVector([pix |-> p, src |-> e.id])
    /\ \A s \in Sessions :
          /\ Len(new_images[s]) = Len(new_ids[s])
          /\ \A i \in DOMAIN new_ids[s] : new_images[s][i].src = new_ids[s][i]
          /\ pc[s] \in {"add", "returned"} /\ embeddings[s] # <<>> =>
                 /\ Len(embeddings[s]) = Len(new_ids[s])
                 /\ \A i \in DOMAIN new_ids[s] :
                        embeddings[s][i].of = new_ids[s][i]

\* A call has ended normally that inserted several files listed after a
\* file that failed to load.
C10_Witness ==
    \E s \in Sessions :
        /\ Ended(s) /\ outcome[s] = "ok"
        /\ Len(new_ids[s]) >= 2
        /\ \E i \in DOMAIN image_files[s] :
              /\ image_files[s][i] \in Range(printed[s])
              /\ \A f \in Range(new_ids[s]) :
                    \E j \in DOMAIN image_files[s] : j > i /\ image_files[s][j] = f
        /\ \A f \in Range(new_ids[s]) :
              \E e \in BagToSet(store) : e.id = f /\ e.embedding.of = f

====
